---- MODULE Spec2Model ----
(***************************************************************************)
(* BLuxA Corp transportation backend: booking / payment state machine,     *)
(* notification ledger, immediate dispatch and the retry cycles.           *)
(*                                                                         *)
(* The tables of the store (bookings, payments, notifications, audit_logs) *)
(* are sequences; a row's id is its index.  One request handler is in      *)
(* flight at a time; its channel sends are separate steps, so the retry    *)
(* threads (the background scheduler and the thread the admin endpoint     *)
(* starts) interleave with it and with each other, one store call or one   *)
(* channel send at a time.                                                 *)
(*                                                                         *)
(* Reading of two library calls the source relies on:                      *)
(*  - .lt('retry_count', 'max_retries') is read as the comparison of the   *)
(*    two columns, which is what the comment above it says;                *)
(*  - the email_sent / sms_sent columns, never written at insert, default  *)
(*    to false (the retry code tests them with "is False").                *)
(***************************************************************************)
EXTENDS Integers, Sequences, FiniteSets, TLC

\* ------------------------------------------------------------------ bounds
MaxBookings == 1
MaxPayments == 2
MaxNotifications == 2
MaxAudit == 4
MaxMissing == 1
MaxDrivers == 1
MaxAuditFaults == 1

\* ------------------------------------------------------- program constants
max_retries == 3

RetryableTypes == {"booking_confirmation", "payment_confirmation", "driver_assigned"}

RequiredFields == {"pickup_location", "destination", "pickup_date", "pickup_time",
                   "customer_name", "customer_email", "customer_phone"}

Workers == {"scheduler", "admin"}

VARIABLES
    env,            \* which channel credentials the process was started with
    bookings,       \* table bookings
    payments,       \* table payments
    notifications,  \* table notifications (the ledger)
    audit_logs,     \* table audit_logs
    handler,        \* the request in flight / the last response
    retry,          \* the retry threads: position and the rows they selected
    failed_cycles,  \* history: consecutive scheduler cycles that left a row failed
    io,             \* the channel call (HTTP POST to a provider) made by the last step
    audit_faults,   \* how many audit inserts have failed
    app,            \* the in-memory variant (app.py): its tables and last response
    limiter,        \* POST /bookings requests counted in the limiter's current window
    scheduler       \* the scheduler loop: cycles that failed, and the sleep after the last

vars == <<env, bookings, payments, notifications, audit_logs, handler, retry,
          failed_cycles, io, audit_faults, app, limiter, scheduler>>

store == <<bookings, payments, notifications, audit_logs>>

\* ------------------------------------------------------------------ helpers
NoCall == [by |-> "none", nid |-> 0, channel |-> "none", ok |-> FALSE]

Call(by, nid, channel, ok) == [by |-> by, nid |-> nid, channel |-> channel, ok |-> ok]

\* The handler in flight: the endpoint, the sends still to make, and the status
\* code and 'error' of its response (returned when pc = "done"), and the id of the
\* 'booking' the response carries (0: none).
Idle == [op |-> "none", pc |-> "done", todo |-> <<>>, code |-> 0, error |-> "", booking |-> 0]

Response(op, code, error) ==
    [op |-> op, pc |-> "done", todo |-> <<>>, code |-> code, error |-> error, booking |-> 0]

Dispatching(op, code, todo) ==
    [op |-> op, pc |-> "sending", todo |-> todo, code |-> code, error |-> "", booking |-> 0]

\* "jsonify({'message': ..., 'booking': booking}), code" after the sends in todo.
BookingResponse(op, code, todo, b) ==
    [op |-> op, pc |-> IF todo = <<>> THEN "done" ELSE "sending", todo |-> todo,
     code |-> code, error |-> "", booking |-> b]

\* The two sends of a confirmation, in the order the handlers make them.  nid is
\* 0 when create_notification returned None.
EmailThenWhatsapp(nid) ==
    << [nid |-> nid, channel |-> "email"], [nid |-> nid, channel |-> "whatsapp"] >>

\* create_audit_log: one row appended to audit_logs.
create_audit_log(logs, action, resource_type, resource_id) ==
    Append(logs, [action |-> action, resource_type |-> resource_type,
                  resource_id |-> resource_id])

\* A call of create_audit_log by a handler: the insert is made (written), or it
\* raises and the "except Exception" of create_audit_log logs and swallows it.
\* The audit table holds at most MaxAudit rows, and at most MaxAuditFaults
\* inserts fail.
WriteAudit(written, action, resource_type, resource_id) ==
    IF written
    THEN /\ Len(audit_logs) < MaxAudit
         /\ audit_logs' = create_audit_log(audit_logs, action, resource_type, resource_id)
         /\ UNCHANGED audit_faults
    ELSE /\ audit_faults < MaxAuditFaults
         /\ audit_faults' = audit_faults + 1
         /\ UNCHANGED audit_logs

\* A create_audit_log whose insert failure reaches the caller.
create_audit_log_unguarded(written) == ~written

\* Whether create_audit_log raises into the handler: never, its "except
\* Exception" logs the failed insert and returns.
create_audit_log_raises(written) == FALSE

\* What a handler answers after its audit write: the answer of the statements
\* that follow it, `normal`, or 500 without any of them when the write raised.
AfterAudit(written, op, normal) ==
    IF create_audit_log_raises(written) THEN Response(op, 500, "Internal error") ELSE normal

\* create_notification: the row inserted into notifications.
create_notification(recipient_type, notification_type, booking, phone) ==
    [recipient_type |-> recipient_type,
     type           |-> notification_type,
     booking        |-> booking,
     phone          |-> phone,
     status         |-> "pending",
     retry_count    |-> 0,
     max_retries    |-> max_retries,
     email_sent     |-> FALSE,
     sms_sent       |-> FALSE,
     details        |-> <<>>]

\* create_notification returns the inserted row, or None when the insert fails
\* (the exception is logged and swallowed); the ledger holds at most
\* MaxNotifications rows.
Notify(created, recipient_type, notification_type, booking, phone) ==
    IF created
    THEN /\ Len(notifications) < MaxNotifications
         /\ notifications' = Append(notifications,
                create_notification(recipient_type, notification_type, booking, phone))
         /\ failed_cycles' = Append(failed_cycles, 0)
    ELSE UNCHANGED <<notifications, failed_cycles>>

\* Several create_notification calls of one handler: the rows whose insert was
\* made, in call order.
NotifyRows(rows) ==
    /\ Len(notifications) + Len(rows) <= MaxNotifications
    /\ notifications' = notifications \o rows
    /\ failed_cycles' = failed_cycles \o [i \in 1..Len(rows) |-> 0]

\* "notification['id'] if notification else None", None being 0: the id of the
\* row just appended to the ledger `after`, if one was.
NewId(after) == IF Len(after) > Len(notifications) THEN Len(after) ELSE 0

\* The loop "for attempt in range(max_retries)": `failures` provider responses
\* other than 200 come before the first 200; the send succeeds when a 200
\* arrives within the attempts.
SendSucceeds(failures) == failures < max_retries

\* A send whose exhausted attempts raise into the caller.
send_raises_when_exhausted(channel, failures) ==
    (IF channel = "email" THEN env.RESEND_API_KEY ELSE env.WHATSAPP_WEBHOOK_URL)
      /\ ~SendSucceeds(failures)

\* Whether send_email_with_retry / send_whatsapp_with_retry raise into their
\* caller: never.  Each attempt's exception is caught inside the loop and the
\* exhausted send returns False, which no handler reads.
send_raises(channel, failures) == FALSE

\* send_email_with_retry: the ledger row after the call.
send_email_with_retry(n, configured, failures) ==
    IF ~configured
    THEN [n EXCEPT !.status = "failed"]
    ELSE IF SendSucceeds(failures)
         THEN [n EXCEPT !.status = "sent", !.email_sent = TRUE]
         ELSE [n EXCEPT !.status = "failed", !.retry_count = max_retries]

\* send_whatsapp_with_retry: the ledger row after the call.
send_whatsapp_with_retry(n, configured, failures) ==
    IF ~configured
    THEN [n EXCEPT !.status = "failed"]
    ELSE IF SendSucceeds(failures)
         THEN [n EXCEPT !.status = "sent", !.sms_sent = TRUE]
         ELSE [n EXCEPT !.status = "failed", !.retry_count = max_retries]

Configured(channel) ==
    IF channel = "email" THEN env.RESEND_API_KEY ELSE env.WHATSAPP_WEBHOOK_URL

SendEffect(n, channel, failures) ==
    IF channel = "email"
    THEN send_email_with_retry(n, Configured("email"), failures)
    ELSE send_whatsapp_with_retry(n, Configured("whatsapp"), failures)

\* The provider is called only when the credential is configured.
ChannelCall(by, nid, channel, failures) ==
    IF Configured(channel) THEN Call(by, nid, channel, SendSucceeds(failures)) ELSE NoCall

\* The scheduler loop before any cycle has failed.
SchedulerIdle == [faults |-> 0, wait |-> 0]

\* app.py before its first request: bookings_db = {}, failed_notifications = [],
\* no Stripe intent yet; the retry thread is not inside a cycle (`retrying` is
\* the copy failed_notifications[:] it iterates over).  `delivered` is history:
\* how the new_booking notification of each booking has fared.
AppIdle ==
    [stripe_key |-> TRUE, bookings_db |-> <<>>, failed_notifications |-> <<>>,
     intents |-> <<>>, op |-> "none", code |-> 0, hits |-> 0,
     retrying |-> <<>>, delivered |-> <<>>]

\* ---------------------------------------------------------------------- Init
Init ==
    /\ env \in [RESEND_API_KEY : BOOLEAN, WHATSAPP_WEBHOOK_URL : BOOLEAN]
    /\ bookings = <<>>
    /\ payments = <<>>
    /\ notifications = <<>>
    /\ audit_logs = <<>>
    /\ handler = Idle
    /\ retry = [w \in Workers |->
                  [pc |-> IF w = "scheduler" THEN "select" ELSE "off", queue |-> <<>>]]
    /\ failed_cycles = <<>>
    /\ io = NoCall
    /\ audit_faults = 0
    /\ app = AppIdle
    /\ limiter = 0
    /\ scheduler = SchedulerIdle

\* ------------------------------------------------------------------- pricing
\* Amounts are in cents, durations in minutes.
Max(a, b) == IF a >= b THEN a ELSE b

VehicleTypes == {"executive_sedan", "luxury_suv", "sprinter_van", "limousine"}

Durations == {0, 30, 60, 120}

\* What get_pricing_from_db finds: an available vehicle row of the type (with or
\* without minimum_charge), no such row but system_settings rows, neither, or a
\* query that raises.
PricingSources == {"vehicle", "vehicle_no_minimum", "settings", "defaults", "error"}

\* The hardcoded defaults; an unknown type is priced as executive_sedan.
DefaultRates(vehicle_type) ==
    CASE vehicle_type = "luxury_suv"   -> [base_rate |-> 3500, per_hour_rate |-> 9500]
      [] vehicle_type = "sprinter_van" -> [base_rate |-> 4500, per_hour_rate |-> 12000]
      [] OTHER                         -> [base_rate |-> 2500, per_hour_rate |-> 6500]

\* get_pricing_from_db.  The vehicle row read is (base_rate 30.00, per_hour_rate
\* 60.00, airport_surcharge 10.00, minimum_charge 200.00 or NULL); the settings
\* rows read are base_rate 30.00 and hourly_rate 72.00, with no airport_rate.
get_pricing_from_db(vehicle_type, source) ==
    CASE source = "vehicle" ->
            [base_rate |-> 3000, per_hour_rate |-> 6000,
             airport_transfer_rate |-> 6000 + 1000, minimum_charge |-> 20000]
      [] source = "vehicle_no_minimum" ->
            [base_rate |-> 3000, per_hour_rate |-> 6000,
             airport_transfer_rate |-> 6000 + 1000, minimum_charge |-> 3000 * 2]
      [] source = "settings" ->
            [base_rate |-> 3000, per_hour_rate |-> 7200,
             airport_transfer_rate |-> 7200 + 1000, minimum_charge |-> 3000 * 2]
      [] source = "defaults" ->
            [base_rate |-> DefaultRates(vehicle_type).base_rate,
             per_hour_rate |-> DefaultRates(vehicle_type).per_hour_rate,
             airport_transfer_rate |-> DefaultRates(vehicle_type).per_hour_rate + 1000,
             minimum_charge |-> DefaultRates(vehicle_type).base_rate * 2]
      [] OTHER ->
            [base_rate |-> 2500, per_hour_rate |-> 6500,
             airport_transfer_rate |-> 7500, minimum_charge |-> 5000]

\* A calculate_price without the floor at minimum_charge.
calculate_price_unfloored(vehicle_type, duration_minutes, is_airport_transfer, source) ==
    LET config == get_pricing_from_db(vehicle_type, source)
    IN IF is_airport_transfer
       THEN config.airport_transfer_rate
       ELSE config.base_rate + (config.per_hour_rate * duration_minutes) \div 60

\* calculate_price; every rate times every duration of Durations is a multiple
\* of 60, so "duration_minutes / 60.0" loses nothing here.
calculate_price(vehicle_type, duration_minutes, is_airport_transfer, source) ==
    LET config == get_pricing_from_db(vehicle_type, source)
        price  == IF is_airport_transfer
                  THEN config.airport_transfer_rate
                  ELSE config.base_rate + (config.per_hour_rate * duration_minutes) \div 60
    IN Max(price, config.minimum_charge)

\* ------------------------------------------------------------ create_booking
\* The fields of a request body that are absent or empty.
Missing(d) == {f \in RequiredFields : ~d[f]}

\* A request body: which of the fields the handler reads carry a non-empty value.
\* At most MaxMissing of them are missing.
BookingRequests ==
    {[f \in RequiredFields |-> f \notin m] :
        m \in {x \in SUBSET RequiredFields : Cardinality(x) <= MaxMissing}}

\* A validation that does not look at customer_phone.
AllRequiredPresent_no_phone(d) ==
    /\ d["pickup_location"] /\ d["destination"] /\ d["pickup_date"] /\ d["pickup_time"]
    /\ d["customer_name"] /\ d["customer_email"]

\* "if not all([pickup_address, destination_address, pickup_date, pickup_time,
\*              customer_name, customer_email, customer_phone])"
AllRequiredPresent(d) ==
    /\ d["pickup_location"] /\ d["destination"] /\ d["pickup_date"] /\ d["pickup_time"]
    /\ d["customer_name"] /\ d["customer_email"] /\ d["customer_phone"]

\* The optional part of a request body: vehicle_type, estimated_duration,
\* whether an address contains "airport", and what the pricing tables hold when
\* the request is served.
TripRequests ==
    [vehicle_type : VehicleTypes, estimated_duration : Durations, airport : BOOLEAN,
     pricing : PricingSources]

\* data.get('vehicle_type', 'executive_sedan'), data.get('estimated_duration', 60);
\* no vehicle or settings rows.
DefaultTrip ==
    [vehicle_type |-> "executive_sedan", estimated_duration |-> 60, airport |-> FALSE,
     pricing |-> "defaults"]

\* A booking inserted as confirmed.
booking_data_confirmed(t) ==
    [status |-> "confirmed", payment_status |-> "pending", driver_id |-> 0,
     total_amount |-> calculate_price(t.vehicle_type, t.estimated_duration, t.airport,
                                      t.pricing)]

\* booking_data: the row create_booking inserts.
booking_data(t) ==
    [status |-> "pending", payment_status |-> "pending", driver_id |-> 0,
     total_amount |-> calculate_price(t.vehicle_type, t.estimated_duration, t.airport,
                                      t.pricing)]

\* The view function create_booking, for a request body (d, t) and an audit
\* write that is made or fails.
create_booking_view(d, t, audited) ==
    /\ handler.pc = "done"
    /\ io' = NoCall
    /\ UNCHANGED <<app, env, scheduler, payments, retry>>
    /\ IF ~AllRequiredPresent(d)
       THEN /\ handler' = Response("create_booking", 400, "Missing required fields")
            /\ UNCHANGED <<bookings, notifications, audit_logs, audit_faults, failed_cycles>>
       ELSE /\ Len(bookings) < MaxBookings
            /\ LET bid == Len(bookings) + 1
               IN /\ bookings' = Append(bookings, booking_data(t))
                  /\ WriteAudit(audited, "booking_created", "booking", bid)
                  /\ \E created \in BOOLEAN :
                        Notify(created, "customer", "booking_confirmation", bid, TRUE)
                  /\ handler' = AfterAudit(audited, "create_booking",
                                   BookingResponse("create_booking", 201,
                                                    EmailThenWhatsapp(NewId(notifications')), bid))

\* POST /bookings for a client whose requests the limiter admits.
create_booking(d, t, audited) ==
    /\ create_booking_view(d, t, audited)
    /\ UNCHANGED limiter

\* A request that leaves vehicle_type and estimated_duration to their defaults,
\* served while the audit table accepts the insert.
CreateBooking(d) == create_booking(d, DefaultTrip, TRUE)

\* One send_email_with_retry / send_whatsapp_with_retry call of the handler in
\* flight; the response goes out after the last one.
HandlerSend ==
    /\ handler.pc = "sending"
    /\ \E failures \in 0..max_retries :
         LET s    == Head(handler.todo)
             rest == Tail(handler.todo)
         IN /\ notifications' = IF s.nid = 0 THEN notifications
                                ELSE [notifications EXCEPT
                                        ![s.nid] = SendEffect(@, s.channel, failures)]
            /\ io' = ChannelCall("handler", s.nid, s.channel, failures)
            /\ handler' = IF send_raises(s.channel, failures)
                           THEN Response(handler.op, 500, "Internal error")
                           ELSE [handler EXCEPT
                                   !.todo = rest,
                                   !.pc = IF rest = <<>> THEN "done" ELSE "sending"]
    /\ UNCHANGED <<app, env, limiter, scheduler, bookings, payments, audit_logs, audit_faults, retry, failed_cycles>>

\* -------------------------------------------------- the limiter of /bookings
\* @limiter.limit("20 per hour") on POST /bookings.
bookings_per_hour == 20

\* POST /bookings as served: the limiter counts the request of the one client
\* address and hands it to the view function, or refuses it, and then
\* ratelimit_handler answers 429.
limited_create_booking(d, t, audited) ==
    IF limiter >= bookings_per_hour
    THEN /\ handler.pc = "done"
         /\ handler' = Response("create_booking", 429, "Rate limit exceeded")
         /\ io' = NoCall
         /\ UNCHANGED <<app, env, limiter, scheduler, store, audit_faults, retry, failed_cycles>>
    ELSE /\ create_booking_view(d, t, audited)
         /\ limiter' = limiter + 1

\* The hour of the window is over: the count starts again.
LimiterWindowExpires ==
    /\ limiter > 0
    /\ limiter' = 0
    /\ UNCHANGED <<app, env, scheduler, store, audit_faults, retry, failed_cycles, handler, io>>

\* ------------------------------------------------------ create_payment_intent
\* booking_id 0 stands for a request without booking_id; an id above the table's
\* length names no booking.
\* payment_data: the row create_payment_intent inserts for booking b and the
\* Stripe intent pid.
payment_data(b, pid) ==
    [booking_id |-> b, amount |-> bookings[b].total_amount, payment_status |-> "pending",
     transaction_id |-> pid]

create_payment_intent(b, audited) ==
    /\ handler.pc = "done"
    /\ io' = NoCall
    /\ UNCHANGED <<app, env, limiter, scheduler, bookings, notifications, retry, failed_cycles>>
    /\ IF b = 0
       THEN /\ handler' = Response("create_payment_intent", 400, "Booking ID is required")
            /\ UNCHANGED <<payments, audit_logs, audit_faults>>
       ELSE IF b > Len(bookings)
       THEN /\ handler' = Response("create_payment_intent", 404, "Booking not found")
            /\ UNCHANGED <<payments, audit_logs, audit_faults>>
       ELSE /\ Len(payments) < MaxPayments
            /\ LET pid == Len(payments) + 1
               IN /\ payments' = Append(payments, payment_data(b, pid))
                  /\ WriteAudit(audited, "payment_intent_created", "payment", pid)
            /\ handler' = AfterAudit(audited, "create_payment_intent",
                             Response("create_payment_intent", 200, ""))

\* Served while the audit table accepts the insert.
CreatePaymentIntent(b) == create_payment_intent(b, TRUE)

\* ------------------------------------------------------------ stripe_webhook
EventTypes == {"payment_intent.succeeded", "payment_intent.payment_failed"}

\* A callback: the Stripe-Signature header, whether the payload parses, the event
\* type and the payment intent (transaction id) it is about.
WebhookRequests ==
    [sig : {"valid", "invalid"}, payload_ok : BOOLEAN, type : EventTypes,
     pi : 1..MaxPayments]

\* A construct_event that does not verify the signature header.
construct_event_unverified(r) ==
    IF ~r.payload_ok THEN "ValueError" ELSE "event"

\* stripe.Webhook.construct_event(payload, sig_header, STRIPE_WEBHOOK_SECRET)
construct_event(r) ==
    IF r.sig # "valid" THEN "SignatureVerificationError"
    ELSE IF ~r.payload_ok THEN "ValueError"
    ELSE "event"

\* .update({'payment_status': 'completed', ...}).eq('transaction_id', pi)
CompletePayments(pi) ==
    [i \in 1..Len(payments) |->
        IF payments[i].transaction_id = pi
        THEN [payments[i] EXCEPT !.payment_status = "completed"]
        ELSE payments[i]]

\* .update({'payment_status': 'paid', 'status': 'confirmed', ...}).eq('id', booking_id)
ConfirmBooking(b) ==
    [bookings EXCEPT ![b] = [@ EXCEPT !.payment_status = "paid", !.status = "confirmed"]]

stripe_webhook(r, audited) ==
    /\ handler.pc = "done"
    /\ io' = NoCall
    /\ UNCHANGED <<app, env, limiter, scheduler, retry>>
    /\ IF construct_event(r) # "event"
       THEN /\ handler' = Response("stripe_webhook", 400,
                                 IF construct_event(r) = "ValueError"
                                 THEN "Invalid payload" ELSE "Invalid signature")
            /\ UNCHANGED <<bookings, payments, notifications, audit_logs, audit_faults, failed_cycles>>
       ELSE \* a signed event is about an intent create_payment_intent made
            /\ r.pi <= Len(payments)
            /\ IF r.type = "payment_intent.succeeded"
               THEN /\ LET b == payments[r.pi].booking_id
                       IN /\ payments' = CompletePayments(r.pi)
                          /\ bookings' = ConfirmBooking(b)
                          /\ WriteAudit(audited, "payment_completed", "payment", b)
                          /\ \E created \in BOOLEAN :
                                Notify(created, "customer", "payment_confirmation", b, TRUE)
                          /\ handler' = AfterAudit(audited, "stripe_webhook",
                                           Dispatching("stripe_webhook", 200,
                                                EmailThenWhatsapp(NewId(notifications'))))
               ELSE /\ handler' = Response("stripe_webhook", 200, "")
                    /\ UNCHANGED <<bookings, payments, notifications, audit_logs, audit_faults,
                                   failed_cycles>>

\* Served while the audit table accepts the insert.
StripeWebhook(r) == stripe_webhook(r, TRUE)

\* ----------------------------------------------------- update_booking_status
\* Values a caller sends as 'status'; the handler accepts any non-empty string.
StatusValues == {"pending", "completed", "on_hold"}

\* An update that also resets the payment state.
SetStatus_resetting_payment(b, new_status) ==
    [bookings EXCEPT ![b] = [@ EXCEPT !.status = new_status, !.payment_status = "pending"]]

\* .update({'status': new_status, ...}).eq('id', booking_id)
SetStatus(b, new_status) == [bookings EXCEPT ![b] = [@ EXCEPT !.status = new_status]]

\* update_booking_status for the booking id of the path and the 'status' of the
\* body ("" when absent).
update_booking_status(b, new_status, audited) ==
    /\ handler.pc = "done"
    /\ io' = NoCall
    /\ UNCHANGED <<app, env, limiter, scheduler, payments, retry>>
    /\ IF new_status = ""
       THEN /\ handler' = Response("update_booking_status", 400, "Status is required")
            /\ UNCHANGED <<bookings, notifications, audit_logs, audit_faults, failed_cycles>>
       ELSE IF b > Len(bookings)
       THEN /\ handler' = Response("update_booking_status", 404, "Booking not found")
            /\ UNCHANGED <<bookings, notifications, audit_logs, audit_faults, failed_cycles>>
       ELSE /\ bookings' = SetStatus(b, new_status)
            /\ WriteAudit(audited, "booking_status_updated", "booking", b)
            /\ \E created \in BOOLEAN :
                  NotifyRows(IF created
                             THEN << [create_notification("customer", "status_update", b, TRUE)
                                        EXCEPT !.details = <<bookings[b].status, new_status>>] >>
                             ELSE <<>>)
            /\ handler' = AfterAudit(audited, "update_booking_status",
                             BookingResponse("update_booking_status", 200,
                                  << [nid |-> NewId(notifications'), channel |-> "email"] >>, b))

\* -------------------------------------------------------------- assign_driver
\* The rows of table drivers.
Drivers == 1..MaxDrivers

\* .update({'driver_id': driver_id, 'status': 'assigned', ...}).eq('id', booking_id)
AssignBooking(b, driver) ==
    [bookings EXCEPT ![b] = [@ EXCEPT !.driver_id = driver, !.status = "assigned"]]

\* assign_driver for the booking_id and driver_id of the body (0 when absent).
assign_driver(b, driver, audited) ==
    /\ handler.pc = "done"
    /\ io' = NoCall
    /\ UNCHANGED <<app, env, limiter, scheduler, payments, retry>>
    /\ IF b = 0 \/ driver = 0
       THEN /\ handler' = Response("assign_driver", 400,
                                   "Booking ID and Driver ID are required")
            /\ UNCHANGED <<bookings, notifications, audit_logs, audit_faults, failed_cycles>>
       ELSE IF b > Len(bookings)
       THEN /\ handler' = Response("assign_driver", 404, "Booking not found")
            /\ UNCHANGED <<bookings, notifications, audit_logs, audit_faults, failed_cycles>>
       ELSE /\ bookings' = AssignBooking(b, driver)
            /\ IF driver \in Drivers
               THEN /\ WriteAudit(audited, "driver_assigned", "booking", b)
                    /\ \E to_customer, to_driver \in BOOLEAN :
                         LET first  == IF to_customer
                                       THEN << create_notification("customer",
                                                   "driver_assigned", b, TRUE) >>
                                       ELSE <<>>
                             second == IF to_driver
                                       THEN << create_notification("driver",
                                                   "booking_assigned", b, FALSE) >>
                                       ELSE <<>>
                             base   == Len(notifications)
                         IN /\ NotifyRows(first \o second)
                            /\ handler' = AfterAudit(audited, "assign_driver",
                                             BookingResponse("assign_driver", 200,
                                      << [nid |-> IF to_customer THEN base + 1 ELSE 0,
                                          channel |-> "email"],
                                         [nid |-> IF to_driver THEN base + Len(first) + 1 ELSE 0,
                                          channel |-> "email"] >>, b))
               ELSE /\ handler' = BookingResponse("assign_driver", 200, <<>>, b)
                    /\ UNCHANGED <<notifications, audit_logs, audit_faults, failed_cycles>>

\* ------------------------------------------------ trigger_notification_retry
\* Starts a thread that runs retry_failed_notifications once.  One such thread
\* at a time is modelled.
TriggerNotificationRetry ==
    /\ handler.pc = "done"
    /\ retry["admin"].pc = "off"
    /\ Len(audit_logs) < MaxAudit
    /\ retry' = [retry EXCEPT !["admin"] = [pc |-> "select", queue |-> <<>>]]
    /\ audit_logs' = create_audit_log(audit_logs, "notifications_retry_triggered",
                                      "notification", 0)
    /\ UNCHANGED audit_faults
    /\ handler' = Response("trigger_notification_retry", 202, "")
    /\ io' = NoCall
    /\ UNCHANGED <<app, env, limiter, scheduler, bookings, payments, notifications, failed_cycles>>

\* -------------------------------------------------- retry_failed_notifications
\* A query that also returns the rows whose retry_count has reached max_retries.
Selectable_inclusive(n) == n.status = "failed" /\ n.retry_count <= n.max_retries

\* .eq('status', 'failed').lt('retry_count', 'max_retries')
Selectable(n) == n.status = "failed" /\ n.retry_count < n.max_retries

\* What the loop keeps of a selected row: the values read by the query.
Snapshot(id) ==
    [id |-> id, retry_count |-> notifications[id].retry_count,
     email_sent |-> notifications[id].email_sent,
     sms_sent |-> notifications[id].sms_sent]

SelectFailed ==
    LET ids == SelectSeq([i \in 1..Len(notifications) |-> i],
                         LAMBDA i : Selectable(notifications[i]))
    IN [k \in 1..Len(ids) |-> Snapshot(ids[k])]

\* "if notification.get('email_sent') is False"
ShouldRetryEmail(s) ==
    /\ notifications[s.id].type \in RetryableTypes
    /\ s.email_sent = FALSE

\* "if notification.get('sms_sent') is False and notification['metadata'].get('phone')"
ShouldRetryWhatsapp(s) ==
    /\ notifications[s.id].type \in RetryableTypes
    /\ s.sms_sent = FALSE
    /\ notifications[s.id].phone

\* The value written by "'retry_count': retry_count + 1".
NextRetryCount(s) == s.retry_count + 1

\* Where a thread goes when its cycle is over: the scheduler sleeps and selects
\* again, the admin-started thread ends.
Rest(w) == IF w = "scheduler" THEN "select" ELSE "off"

\* The thread after the pass over the head of its queue.
Advance(w) ==
    LET rest == Tail(retry[w].queue)
    IN [pc |-> IF rest = <<>> THEN Rest(w) ELSE "update", queue |-> rest]

At(w, pc) == [pc |-> pc, queue |-> retry[w].queue]

\* History: a scheduler pass over row id has ended, in the ledger state notifs.
PassEnd(w, id, notifs) ==
    IF w = "scheduler"
    THEN [failed_cycles EXCEPT ![id] =
            IF notifs[id].status = "failed"
            THEN (IF @ < max_retries THEN @ + 1 ELSE @)
            ELSE 0]
    ELSE failed_cycles

RetrySelect(w) ==
    /\ retry[w].pc = "select"
    /\ LET q == SelectFailed
       IN retry' = [retry EXCEPT ![w] =
                      [pc |-> IF q = <<>> THEN Rest(w) ELSE "update", queue |-> q]]
    /\ io' = NoCall
    /\ UNCHANGED <<app, env, limiter, scheduler, bookings, payments, notifications, audit_logs, audit_faults, handler,
                   failed_cycles>>

RetryUpdate(w) ==
    /\ retry[w].pc = "update"
    /\ LET s == Head(retry[w].queue)
           notifs == [notifications EXCEPT ![s.id] =
                        [@ EXCEPT !.retry_count = NextRetryCount(s), !.status = "pending"]]
       IN /\ notifications' = notifs
          /\ IF ShouldRetryEmail(s)
             THEN retry' = [retry EXCEPT ![w] = At(w, "email")] /\ UNCHANGED failed_cycles
             ELSE IF ShouldRetryWhatsapp(s)
             THEN retry' = [retry EXCEPT ![w] = At(w, "whatsapp")] /\ UNCHANGED failed_cycles
             ELSE /\ retry' = [retry EXCEPT ![w] = Advance(w)]
                  /\ failed_cycles' = PassEnd(w, s.id, notifs)
    /\ io' = NoCall
    /\ UNCHANGED <<app, env, limiter, scheduler, bookings, payments, audit_logs, audit_faults, handler>>

RetryEmail(w) ==
    /\ retry[w].pc = "email"
    /\ \E failures \in 0..max_retries :
         LET s == Head(retry[w].queue)
             notifs == [notifications EXCEPT ![s.id] = SendEffect(@, "email", failures)]
         IN /\ notifications' = notifs
            /\ io' = ChannelCall("retry", s.id, "email", failures)
            /\ IF ShouldRetryWhatsapp(s)
               THEN retry' = [retry EXCEPT ![w] = At(w, "whatsapp")] /\ UNCHANGED failed_cycles
               ELSE /\ retry' = [retry EXCEPT ![w] = Advance(w)]
                    /\ failed_cycles' = PassEnd(w, s.id, notifs)
    /\ UNCHANGED <<app, env, limiter, scheduler, bookings, payments, audit_logs, audit_faults, handler>>

RetryWhatsapp(w) ==
    /\ retry[w].pc = "whatsapp"
    /\ \E failures \in 0..max_retries :
         LET s == Head(retry[w].queue)
             notifs == [notifications EXCEPT ![s.id] = SendEffect(@, "whatsapp", failures)]
         IN /\ notifications' = notifs
            /\ io' = ChannelCall("retry", s.id, "whatsapp", failures)
            /\ retry' = [retry EXCEPT ![w] = Advance(w)]
            /\ failed_cycles' = PassEnd(w, s.id, notifs)
    /\ UNCHANGED <<app, env, limiter, scheduler, bookings, payments, audit_logs, audit_faults, handler>>

\* ------------------------------------------------------------ retry_scheduler
\* "time.sleep(300)  # Retry every 5 minutes", "time.sleep(60)  # Wait 1 minute on error"
cycle_interval == 300
recovery_interval == 60

\* How many cycles fail.
MaxCycleFaults == 1

\* Whether an exception raised inside retry_failed_notifications leaves the
\* function: its whole body is inside "try: ... except Exception as e:", which
\* logs and returns.
retry_failed_notifications_raises == FALSE

\* The sleep of retry_scheduler after a cycle: the except branch is taken when
\* the call raised.
SchedulerSleep(raised) == IF raised THEN recovery_interval ELSE cycle_interval

\* A Supabase call of the cycle (the query, the retry_count update) raises: the
\* rest of the cycle is skipped, the error is logged, and the thread goes on as
\* after any cycle.
RetryFault(w) ==
    /\ retry[w].pc \in {"select", "update"}
    /\ scheduler.faults < MaxCycleFaults
    /\ retry' = [retry EXCEPT ![w] = [pc |-> Rest(w), queue |-> <<>>]]
    /\ scheduler' = [faults |-> scheduler.faults + 1,
                     wait |-> IF w = "scheduler"
                              THEN SchedulerSleep(retry_failed_notifications_raises)
                              ELSE scheduler.wait]
    /\ io' = NoCall
    /\ UNCHANGED <<app, env, limiter, store, audit_faults, handler, failed_cycles>>

\* ---------------------------------------------------------------------- Next
Next ==
    \/ \E d \in BookingRequests : CreateBooking(d)
    \/ \E b \in 0..MaxBookings : CreatePaymentIntent(b)
    \/ \E r \in WebhookRequests : StripeWebhook(r)
    \/ TriggerNotificationRetry
    \/ HandlerSend
    \/ \E w \in Workers : RetrySelect(w)
    \/ \E w \in Workers : RetryUpdate(w)
    \/ \E w \in Workers : RetryEmail(w)
    \/ \E w \in Workers : RetryWhatsapp(w)

Spec == Init /\ [][Next]_vars

\* ------------------------------------------------------ the request handlers
\* The application served by a WSGI server: the "__main__" block is not run, so
\* no scheduler thread exists, and the admin retry endpoint is not called.
HandlerInit ==
    /\ env \in [RESEND_API_KEY : BOOLEAN, WHATSAPP_WEBHOOK_URL : BOOLEAN]
    /\ bookings = <<>>
    /\ payments = <<>>
    /\ notifications = <<>>
    /\ audit_logs = <<>>
    /\ handler = Idle
    /\ retry = [w \in Workers |-> [pc |-> "off", queue |-> <<>>]]
    /\ failed_cycles = <<>>
    /\ io = NoCall
    /\ audit_faults = 0
    /\ app = AppIdle
    /\ limiter = 0
    /\ scheduler = SchedulerIdle

\* A request body carrying every field the handler requires.
CompleteRequest == [f \in RequiredFields |-> TRUE]

\* Booking creation and its dispatch: the default trip with any request body,
\* any trip and pricing source with a complete one.
BookingNext ==
    \/ \E d \in BookingRequests, audited \in BOOLEAN : create_booking(d, DefaultTrip, audited)
    \/ \E t \in TripRequests, audited \in BOOLEAN : create_booking(CompleteRequest, t, audited)
    \/ HandlerSend

BookingSpec == HandlerInit /\ [][BookingNext]_vars

\* Booking creation, payment and driver assignment; audit inserts may fail.
LifecycleNext ==
    \/ \E d \in BookingRequests, audited \in BOOLEAN : create_booking(d, DefaultTrip, audited)
    \/ \E b \in 0..MaxBookings + 1, audited \in BOOLEAN : create_payment_intent(b, audited)
    \/ \E r \in WebhookRequests, audited \in BOOLEAN : stripe_webhook(r, audited)
    \/ \E b \in 0..MaxBookings + 1, driver \in 0..MaxDrivers + 1, audited \in BOOLEAN :
          assign_driver(b, driver, audited)
    \/ HandlerSend

LifecycleSpec == HandlerInit /\ [][LifecycleNext]_vars

\* All the booking and payment handlers; the audit inserts of `outcomes`.
HandlerNext(outcomes) ==
    \/ \E d \in BookingRequests, audited \in outcomes :
          create_booking(d, DefaultTrip, audited)
    \/ \E b \in 0..MaxBookings + 1, audited \in outcomes : create_payment_intent(b, audited)
    \/ \E r \in WebhookRequests, audited \in outcomes : stripe_webhook(r, audited)
    \/ \E b \in 0..MaxBookings + 1, driver \in 0..MaxDrivers + 1, audited \in outcomes :
          assign_driver(b, driver, audited)
    \/ \E b \in 1..MaxBookings + 1, new_status \in StatusValues \cup {""},
          audited \in outcomes :
          update_booking_status(b, new_status, audited)
    \/ HandlerSend

\* The audit table accepts every insert.
HandlerSpec == HandlerInit /\ [][HandlerNext({TRUE})]_vars

\* A deployment without channel credentials, whose audit inserts may fail.
AuditFaultInit ==
    /\ HandlerInit
    /\ env = [RESEND_API_KEY |-> FALSE, WHATSAPP_WEBHOOK_URL |-> FALSE]

AuditFaultSpec == AuditFaultInit /\ [][HandlerNext(BOOLEAN)]_vars

\* The scheduler's retry cycles beside the handlers that write ledger rows of
\* every type.
RetryCycleNext ==
    \/ \E d \in BookingRequests : create_booking(d, DefaultTrip, TRUE)
    \/ \E b \in 1..MaxBookings, new_status \in StatusValues :
          update_booking_status(b, new_status, TRUE)
    \/ \E b \in 1..MaxBookings, driver \in Drivers : assign_driver(b, driver, TRUE)
    \/ HandlerSend
    \/ RetrySelect("scheduler")
    \/ RetryUpdate("scheduler")
    \/ RetryEmail("scheduler")
    \/ RetryWhatsapp("scheduler")

RetryCycleSpec == Init /\ [][RetryCycleNext]_vars

\* The scheduler thread, whose cycles may fail, beside booking creation.
SchedulerNext ==
    \/ \E d \in BookingRequests : create_booking(d, DefaultTrip, TRUE)
    \/ HandlerSend
    \/ RetrySelect("scheduler")
    \/ RetryUpdate("scheduler")
    \/ RetryEmail("scheduler")
    \/ RetryWhatsapp("scheduler")
    \/ RetryFault("scheduler")

SchedulerSpec == Init /\ [][SchedulerNext]_vars

\* POST /bookings behind its limiter, for one client address.
LimiterNext ==
    \/ \E d \in BookingRequests, audited \in BOOLEAN :
          limited_create_booking(d, DefaultTrip, audited)
    \/ HandlerSend
    \/ LimiterWindowExpires

LimiterSpec == HandlerInit /\ [][LimiterNext]_vars

\* ------------------------------------------------- the in-memory variant
\* app.py keeps its bookings in the dict bookings_db and its payment state at
\* Stripe: `intents` is Stripe's table of the payment intents it created.
MaxAppBookings == 2
MaxIntents == 2

production ==
    <<env, bookings, payments, notifications, audit_logs, handler, retry, failed_cycles,
      io, audit_faults, limiter, scheduler>>

AppRequiredFields == {"pickup_location", "dropoff_location", "pickup_datetime"}

AppBookingRequests == [AppRequiredFields -> BOOLEAN]

AppVehicleTypes == {"executive_sedan", "luxury_suv", "premium_van", "unlisted"}

pricing_data(vehicle_type) ==
    CASE vehicle_type = "executive_sedan" -> 15000
      [] vehicle_type = "luxury_suv" -> 20000
      [] vehicle_type = "premium_van" -> 25000
      [] OTHER -> 15000

AppResponse(op, code) == [app EXCEPT !.op = op, !.code = code]

\* STRIPE_SECRET_KEY is read once at import.
AppStart(key) ==
    /\ app = AppIdle
    /\ app' = [app EXCEPT !.stripe_key = key, !.op = "start"]
    /\ UNCHANGED production

\* POST /bookings of app.py; `notified` is the result of send_notification.
created(d, vehicle_type, notified) ==
    IF \E f \in AppRequiredFields : ~d[f]
    THEN AppResponse("create_booking", 400)
    ELSE LET booking == [status |-> "pending",
                         estimated_price |-> pricing_data(vehicle_type),
                         payment_intent_id |-> 0]
             bid == Len(app.bookings_db) + 1
         IN  [AppResponse("create_booking", 201) EXCEPT
                !.bookings_db = Append(@, booking),
                !.failed_notifications = IF notified THEN @ ELSE Append(@, bid),
                !.delivered = Append(@, IF notified THEN "sent" ELSE "failed")]

\* The view function create_booking, called once the limiter has admitted the
\* request; bookings_db holds at most MaxAppBookings bookings.
app_create_booking(d, vehicle_type, notified) ==
    /\ app.op # "none"
    /\ notified => env.WHATSAPP_WEBHOOK_URL
    /\ (\A f \in AppRequiredFields : d[f]) => Len(app.bookings_db) < MaxAppBookings
    /\ app' = created(d, vehicle_type, notified)
    /\ UNCHANGED production

\* GET /bookings/<booking_id>
get_booking(b) ==
    /\ app.op # "none"
    /\ app' = AppResponse("get_booking", IF b \in DOMAIN app.bookings_db THEN 200 ELSE 404)
    /\ UNCHANGED production

\* POST /payments/create-intent of app.py
app_create_payment_intent(b) ==
    /\ app.op # "none"
    /\ IF b = 0
       THEN app' = AppResponse("create_payment_intent", 400)
       ELSE IF b \notin DOMAIN app.bookings_db
       THEN app' = AppResponse("create_payment_intent", 404)
       ELSE IF ~app.stripe_key
       THEN app' = AppResponse("create_payment_intent", 500)
       ELSE /\ Len(app.intents) < MaxIntents
            /\ app' = [AppResponse("create_payment_intent", 200) EXCEPT
                         !.intents = Append(@, [booking_id |-> b,
                                                amount |-> app.bookings_db[b].estimated_price,
                                                status |-> "requires_payment_method"])]
    /\ UNCHANGED production

\* The customer pays, or abandons, the intent at Stripe with the client secret.
StripeSettles(pi, status) ==
    /\ pi \in DOMAIN app.intents
    /\ app.intents[pi].status = "requires_payment_method"
    /\ app' = [app EXCEPT !.intents[pi].status = status, !.op = "stripe"]
    /\ UNCHANGED production

\* POST /payments/confirm, a request of the client
confirm_payment(pi) ==
    /\ app.op # "none"
    /\ IF pi \notin DOMAIN app.intents
       THEN app' = AppResponse("confirm_payment", 400)
       ELSE LET intent == app.intents[pi] IN
            IF intent.status = "succeeded" /\ intent.booking_id \in DOMAIN app.bookings_db
            THEN app' = [AppResponse("confirm_payment", 200) EXCEPT
                           !.bookings_db[intent.booking_id].status = "confirmed",
                           !.bookings_db[intent.booking_id].payment_intent_id = pi]
            ELSE app' = AppResponse("confirm_payment", 200)
    /\ UNCHANGED production

\* GET /payments/<payment_intent_id>/status
get_payment_status(pi) ==
    /\ app.op # "none"
    /\ app' = AppResponse("get_payment_status", IF pi \in DOMAIN app.intents THEN 200 ELSE 400)
    /\ UNCHANGED production

\* ------------------------------------------- retry_failed_notifications (app.py)
\* list.remove(x): the list without its first item equal to x.
Remove(list, x) ==
    LET first == CHOOSE i \in DOMAIN list : list[i] = x /\ \A j \in 1..(i - 1) : list[j] # x
    IN SubSeq(list, 1, first - 1) \o SubSeq(list, first + 1, Len(list))

\* A loop that removes the notification whether or not it was sent.
AfterRetry_dropping(list, x, sent) == Remove(list, x)

\* "if send_notification(notification): ... failed_notifications.remove(notification)"
AfterRetry(list, x, sent) == IF sent THEN Remove(list, x) ELSE list

\* The thread wakes up: "if failed_notifications:" ... "for notification in
\* failed_notifications[:]".
app_retry_cycle ==
    /\ app.retrying = <<>>
    /\ app.failed_notifications # <<>>
    /\ app' = [app EXCEPT !.retrying = app.failed_notifications]
    /\ UNCHANGED production

\* One iteration of the loop; `sent` is the result of send_notification, which
\* is False without calling anything when WHATSAPP_WEBHOOK_URL is unset.  Only
\* this thread removes from the list, so the notification is still in it.
app_retry_send(sent) ==
    /\ app.retrying # <<>>
    /\ sent => env.WHATSAPP_WEBHOOK_URL
    /\ LET notification == Head(app.retrying)
       IN IF \A i \in DOMAIN app.failed_notifications :
                app.failed_notifications[i] # notification
          THEN \* list.remove raises ValueError: the except clause ends the cycle
               app' = [app EXCEPT !.retrying = <<>>]
          ELSE app' = [app EXCEPT
                         !.retrying = Tail(@),
                         !.failed_notifications = AfterRetry(@, notification, sent),
                         !.delivered[notification] = IF sent THEN "retried" ELSE @]
    /\ UNCHANGED production

\* The retry thread beside booking creation.
AppRetryNext ==
    \/ \E key \in BOOLEAN : AppStart(key)
    \/ \E d \in AppBookingRequests, vehicle_type \in AppVehicleTypes, notified \in BOOLEAN :
          app_create_booking(d, vehicle_type, notified)
    \/ app_retry_cycle
    \/ \E sent \in BOOLEAN : app_retry_send(sent)

AppRetrySpec == HandlerInit /\ [][AppRetryNext]_vars

\* ----------------------------------------------------------- rate limiting
\* @limiter.limit("10 per minute") on POST /bookings: app.hits counts the
\* requests of the one client address in the current window.
bookings_per_minute == 10

\* The limiter admits a request while the window's count is below the limit.
Admitted(hits) == hits < bookings_per_minute

\* POST /bookings as served: the limiter, then the view function.  A refused
\* request is answered 429 by flask-limiter and never reaches the view.
post_bookings(d, vehicle_type, notified) ==
    /\ app.op # "none"
    /\ IF ~Admitted(app.hits)
       THEN app' = AppResponse("create_booking", 429)
       ELSE /\ notified => env.WHATSAPP_WEBHOOK_URL
            /\ (\A f \in AppRequiredFields : d[f]) =>
                  Len(app.bookings_db) < MaxAppBookings
            /\ app' = [created(d, vehicle_type, notified) EXCEPT !.hits = @ + 1]
    /\ UNCHANGED production

\* The minute of the fixed window is over: the count starts again.
WindowExpires ==
    /\ app.hits > 0
    /\ app' = [app EXCEPT !.hits = 0, !.op = "window"]
    /\ UNCHANGED production

RateLimitNext ==
    \/ \E key \in BOOLEAN : AppStart(key)
    \/ \E d \in AppBookingRequests, vehicle_type \in AppVehicleTypes, notified \in BOOLEAN :
          post_bookings(d, vehicle_type, notified)
    \/ WindowExpires
    \/ \E b \in 0..MaxAppBookings + 1 : get_booking(b)

RateLimitSpec == HandlerInit /\ [][RateLimitNext]_vars

AppNext ==
    \/ \E key \in BOOLEAN : AppStart(key)
    \/ \E d \in AppBookingRequests, vehicle_type \in AppVehicleTypes, notified \in BOOLEAN :
          app_create_booking(d, vehicle_type, notified)
    \/ \E b \in 0..MaxAppBookings + 1 : get_booking(b)
    \/ \E b \in 0..MaxAppBookings + 1 : app_create_payment_intent(b)
    \/ \E pi \in 1..MaxIntents, status \in {"succeeded", "canceled"} : StripeSettles(pi, status)
    \/ \E pi \in 1..MaxIntents + 1 : confirm_payment(pi)
    \/ \E pi \in 1..MaxIntents + 1 : get_payment_status(pi)

AppSpec == HandlerInit /\ [][AppNext]_vars

\* =================================================================== claims
\* The row a retry thread is working on.
Current(w) == Head(retry[w].queue).id

\* A step of a retry cycle that acts on a ledger row.
RetryActs(w) == RetryUpdate(w) \/ RetryEmail(w) \/ RetryWhatsapp(w)

\* The last send of the dispatch of endpoint op, made for ledger row nid.
DispatchEnds(op, nid) ==
    /\ handler.op = op
    /\ handler.pc = "sending"
    /\ Head(handler.todo).nid = nid
    /\ HandlerSend
    /\ handler'.pc = "done"

\* C1: a payment callback whose signature fails verification is rejected with
\* 400 "Invalid signature": bookings, payments, the notification ledger and the
\* audit log are all left as they were, and no channel is called.
C1_InvalidSignatureRejected ==
    [][\A r \in WebhookRequests :
          (r.sig # "valid" /\ StripeWebhook(r)) =>
              /\ handler'.code = 400
              /\ handler'.error = "Invalid signature"
              /\ handler'.todo = <<>>
              /\ UNCHANGED store
              /\ io' = NoCall]_vars

C1_Witness ==
    /\ handler.op = "stripe_webhook"
    /\ handler.error = "Invalid signature"
    /\ Len(payments) > 0
    /\ bookings[payments[1].booking_id].payment_status = "pending"

\* C2: a valid payment-succeeded callback for a booking that is already paid is
\* a no-op: it adds no audit entry and no ledger entry, changes no booking or
\* payment, and dispatches nothing.
C2_ReplayIsNoOp ==
    [][\A r \in WebhookRequests :
          (/\ construct_event(r) = "event"
           /\ r.type = "payment_intent.succeeded"
           /\ r.pi <= Len(payments)
           /\ bookings[payments[r.pi].booking_id].payment_status = "paid"
           /\ StripeWebhook(r)) =>
              /\ UNCHANGED store
              /\ handler'.todo = <<>>]_vars

\* C3: when the immediate dispatch of a booking confirmation ends, the entry is
\* "sent" exactly when both channels delivered, and "failed" otherwise.
C3_SentIffAllChannels ==
    [][\A n \in DOMAIN notifications :
          DispatchEnds("create_booking", n) =>
              notifications'[n].status =
                  IF notifications'[n].email_sent /\ notifications'[n].sms_sent
                  THEN "sent" ELSE "failed"]_vars

\* C4: a retry cycle calls a channel for an entry only if the ledger does not
\* already record that channel as delivered for it.
C4_RetryOnlyFailedChannels ==
    [][\A n \in DOMAIN notifications :
          (io'.by = "retry" /\ io'.nid = n) =>
              /\ io'.channel = "email" => ~notifications[n].email_sent
              /\ io'.channel = "whatsapp" => ~notifications[n].sms_sent]_vars

\* C5: when a provider send of a booking confirmation's immediate dispatch
\* fails, the entry is left failed with retry_count below max_retries, so that
\* the next retry cycle selects it.
C5_FirstFailureRetryable ==
    [][\A n \in DOMAIN notifications :
          (/\ handler.op = "create_booking"
           /\ HandlerSend
           /\ io' # NoCall /\ io'.nid = n /\ ~io'.ok) =>
              /\ notifications'[n].status = "failed"
              /\ notifications'[n].retry_count < notifications'[n].max_retries
              /\ Selectable(notifications'[n])]_vars

\* C6: an entry that max_retries consecutive scheduler cycles have left failed
\* has retry_count = max_retries and is not selected by the retry query.
C6_ExhaustedAfterMaxCycles ==
    \A n \in DOMAIN notifications :
        failed_cycles[n] = max_retries =>
            /\ notifications[n].retry_count = max_retries
            /\ ~Selectable(notifications[n])

\* C7: retry_count never exceeds max_retries, whatever the interleaving of the
\* handlers and the retry cycles.
C7_RetryCountBounded ==
    \A n \in DOMAIN notifications :
        notifications[n].retry_count <= notifications[n].max_retries

\* A cycle has raised an entry's retry_count from max_retries - 1 to max_retries.
C7_Witness ==
    \E w \in Workers :
        /\ retry[w].pc \in {"email", "whatsapp"}
        /\ Head(retry[w].queue).retry_count = max_retries - 1
        /\ notifications[Current(w)].retry_count = max_retries

\* C8: no step of a retry cycle acts on an entry whose status is "sent": it
\* neither rewrites the entry nor sends for it.
C8_SentIsFinal ==
    [][\A w \in Workers :
          RetryActs(w) => notifications[Current(w)].status # "sent"]_vars

\* C9: when two retry cycles overlap on the same entry, the second cycle's
\* update leaves retry_count one above the value the first cycle started from,
\* not two.
C9_ConcurrentCyclesIncrementOnce ==
    [][\A w, w2 \in Workers :
          (/\ w # w2
           /\ retry[w2].pc \in {"email", "whatsapp"}
           /\ RetryUpdate(w)
           /\ Current(w) = Current(w2)) =>
              notifications'[Current(w)].retry_count =
                  Head(retry[w2].queue).retry_count + 1]_vars

C12_PriceIsFlooredRate ==
    [][\A t \in TripRequests, audited \in BOOLEAN :
          create_booking(CompleteRequest, t, audited) =>
             LET config == get_pricing_from_db(t.vehicle_type, t.pricing)
                 rate   == IF t.airport
                           THEN config.airport_transfer_rate
                           ELSE config.base_rate
                                  + (config.per_hour_rate * t.estimated_duration) \div 60
                 total  == bookings'[Len(bookings')].total_amount
             IN  /\ rate >= config.minimum_charge => total = rate
                 /\ rate < config.minimum_charge => total = config.minimum_charge
                 /\ total >= config.minimum_charge]_vars

\* A booking is stored at the minimum charge of the executive sedan defaults
\* (50.00), which only a trip priced below the minimum gets (30 minutes here:
\* 25.00 + 65.00 / 2 = 57.50 unfloored is above it, 0 minutes is below).
C12_Witness ==
    /\ handler.op = "create_booking"
    /\ handler.code = 201
    /\ bookings # <<>>
    /\ bookings[1].total_amount = 5000

\* ------------------------------------------------------- payments (C13, C14)
\* The payment records of booking b that are completed.
CompletedPayments(b) ==
    {p \in DOMAIN payments :
        payments[p].booking_id = b /\ payments[p].payment_status = "completed"}

\* C13: whatever intent requests and succeeded callbacks arrive, a booking
\* never has more than one completed payment record.
C13_AtMostOneCompletedPayment ==
    \A b \in DOMAIN bookings : Cardinality(CompletedPayments(b)) <= 1

\* C14: a payment intent request naming no stored booking is answered 404, one
\* naming a booking that already has a completed payment is refused, and neither
\* creates a payment record; a request answered 200 names a stored booking
\* without a completed payment.
C14_IntentOnlyForUnpaidBooking ==
    [][\A b \in 1..MaxBookings + 1, audited \in BOOLEAN :
          create_payment_intent(b, audited) =>
             /\ b \notin DOMAIN bookings => handler'.code = 404 /\ payments' = payments
             /\ (b \in DOMAIN bookings /\ CompletedPayments(b) # {}) =>
                   handler'.code # 200 /\ payments' = payments
             /\ handler'.code = 200 =>
                   b \in DOMAIN bookings /\ CompletedPayments(b) = {}]_vars

\* ------------------------------------------------- payment confirmation (C15)
\* The routes of app.py a client calls.
ClientRequests ==
    {"create_booking", "get_booking", "create_payment_intent", "confirm_payment",
     "get_payment_status"}

\* C15: a payment record becomes completed, and a booking paid or confirmed by
\* payment, only in a step of the webhook handler serving a callback whose
\* signature verifies; no request of a client (payment confirm, intent
\* creation, status query) does it.
C15_PaidOnlyByVerifiedWebhook ==
    [][/\ (\/ \E p \in DOMAIN payments :
                payments[p].payment_status # "completed"
                  /\ payments'[p].payment_status = "completed"
           \/ \E b \in DOMAIN bookings :
                bookings[b].payment_status # "paid" /\ bookings'[b].payment_status = "paid")
          => \E r \in WebhookRequests, audited \in BOOLEAN :
                r.sig = "valid" /\ stripe_webhook(r, audited)
       /\ (\E b \in DOMAIN app.bookings_db :
              app.bookings_db[b].status # "confirmed"
                /\ app'.bookings_db[b].status = "confirmed")
          => app'.op \notin ClientRequests]_vars

\* ------------------------------------------- driver assignment, status (C16, C17)
\* C16: a driver assignment naming a booking or a driver that does not exist is
\* answered with an error and changes nothing: the bookings (status and driver
\* reference), the payments, the notification ledger and the audit log are as
\* before.
C16_UnknownAssignmentChangesNothing ==
    [][\A b \in 1..MaxBookings + 1, driver \in 1..MaxDrivers + 1, audited \in BOOLEAN :
          ((b \notin DOMAIN bookings \/ driver \notin Drivers)
             /\ assign_driver(b, driver, audited)) =>
                /\ handler'.code >= 400
                /\ UNCHANGED store]_vars

\* C17: under booking creation, payment callbacks and driver assignment a
\* booking's status only moves forward in the order pending, assigned,
\* confirmed, completed, or to cancelled from a status that is not final; it
\* never moves backwards and never leaves completed or cancelled; its
\* payment_status only goes from pending to paid or failed.
C17_StatusMovesForward ==
    [][\A b \in DOMAIN bookings :
          LET rank == [s \in {"pending", "assigned", "confirmed", "completed"} |->
                          CASE s = "pending" -> 0 [] s = "assigned" -> 1
                            [] s = "confirmed" -> 2 [] OTHER -> 3]
              old  == bookings[b].status
              new  == bookings'[b].status
          IN  /\ \/ new = old
                 \/ /\ old \in DOMAIN rank /\ new \in DOMAIN rank
                    /\ rank[old] < rank[new]
                 \/ new = "cancelled" /\ old \notin {"completed", "cancelled"}
              /\ \/ bookings'[b].payment_status = bookings[b].payment_status
                 \/ /\ bookings[b].payment_status = "pending"
                    /\ bookings'[b].payment_status \in {"paid", "failed"}]_vars

C19_OneAuditEntryPerChange ==
    [][/\ SubSeq(audit_logs', 1, Len(audit_logs)) = audit_logs
       /\ (bookings' # bookings \/ payments' # payments) =>
             Len(audit_logs') = Len(audit_logs) + 1]_vars

\* C20: a handler whose audit insert fails behaves, apart from the missing audit
\* entry, as when the insert succeeds: the failure is swallowed, the booking or
\* payment mutation is applied and kept, the caller gets the success answer, and
\* the notification sends that follow the audit write are still made.
C20_AuditFailureSwallowed ==
    [][audit_faults' # audit_faults =>
          /\ audit_logs' = audit_logs
          /\ handler'.op \in {"create_booking", "create_payment_intent", "stripe_webhook",
                              "update_booking_status", "assign_driver"}
          /\ \A d \in BookingRequests :
                create_booking(d, DefaultTrip, FALSE) =>
                   /\ bookings' = Append(bookings, booking_data(DefaultTrip))
                   /\ handler'.code = 201
                   /\ handler'.pc = "sending" /\ Len(handler'.todo) = 2
          /\ \A b \in 0..MaxBookings + 1 :
                create_payment_intent(b, FALSE) =>
                   /\ payments' = Append(payments, payment_data(b, Len(payments) + 1))
                   /\ handler'.code = 200
          /\ \A r \in WebhookRequests :
                stripe_webhook(r, FALSE) =>
                   /\ payments' = CompletePayments(r.pi)
                   /\ bookings' = ConfirmBooking(payments[r.pi].booking_id)
                   /\ handler'.code = 200
                   /\ handler'.pc = "sending" /\ Len(handler'.todo) = 2
          /\ \A b \in 1..MaxBookings + 1, new_status \in StatusValues :
                update_booking_status(b, new_status, FALSE) =>
                   /\ bookings' = SetStatus(b, new_status)
                   /\ handler'.code = 200
                   /\ handler'.pc = "sending" /\ Len(handler'.todo) = 1
          /\ \A b \in 0..MaxBookings + 1, driver \in 0..MaxDrivers + 1 :
                assign_driver(b, driver, FALSE) =>
                   /\ bookings' = AssignBooking(b, driver)
                   /\ handler'.code = 200
                   /\ handler'.pc = "sending" /\ Len(handler'.todo) = 2]_vars

\* A payment callback has completed a payment and is sending its confirmation
\* although its audit insert failed: no payment_completed entry was written.
C20_Witness ==
    /\ audit_faults = 1
    /\ handler.op = "stripe_webhook"
    /\ handler.code = 200
    /\ handler.pc = "sending"
    /\ \E p \in DOMAIN payments : payments[p].payment_status = "completed"
    /\ \A i \in DOMAIN audit_logs : audit_logs[i].action # "payment_completed"

\* ------------------------------------------------- delivery failures (C21)
\* C21: whether a channel send of booking creation, payment confirmation,
\* status update or driver assignment succeeds or fails, the step that makes it
\* leaves the bookings and the payments as they are and does not change the
\* answer the handler gives (endpoint, status code, error, booking returned): a
\* delivery failure never reaches the caller.
C21_DeliveryFailureNotRaised ==
    [][HandlerSend =>
          /\ UNCHANGED <<bookings, payments>>
          /\ handler'.op = handler.op
          /\ handler'.code = handler.code
          /\ handler'.error = handler.error
          /\ handler'.booking = handler.booking]_vars

\* A payment callback has been answered 200 with the booking paid although the
\* provider refused its WhatsApp confirmation on every attempt.
C21_Witness ==
    /\ handler.op = "stripe_webhook"
    /\ handler.pc = "done"
    /\ handler.code = 200
    /\ io.by = "handler" /\ io.channel = "whatsapp" /\ ~io.ok
    /\ \E b \in DOMAIN bookings : bookings[b].payment_status = "paid"

\* ----------------------------------------------------- rate limiting (C22)
\* The in-memory variant: a request arriving when fewer than 10 were counted in
\* the window is processed and counted, every further one is answered 429, is
\* not counted and stores no booking.
app_TenBookingRequestsPerWindow ==
    [][/\ app'.hits <= 10
       /\ \A d \in AppBookingRequests, vehicle_type \in AppVehicleTypes,
             notified \in BOOLEAN :
             post_bookings(d, vehicle_type, notified) =>
                IF app.hits < 10
                THEN /\ app'.code \in {201, 400}
                     /\ app'.hits = app.hits + 1
                ELSE /\ app'.code = 429
                     /\ app'.hits = app.hits
                     /\ app'.bookings_db = app.bookings_db
                     /\ app'.failed_notifications = app.failed_notifications]_vars

\* C22: within one window at most 10 booking requests of a client address are
\* processed: every booking request that arrives after 10 were counted in the
\* window is answered 429 and stores no booking.
C22_TenBookingRequestsPerWindow ==
    [][\A d \in BookingRequests, audited \in BOOLEAN :
          limiter >= 10 /\ limited_create_booking(d, DefaultTrip, audited) =>
             /\ handler'.code = 429
             /\ bookings' = bookings]_vars

\* ------------------------------------------------------ retry cycles (C23)
\* C23: when a retry cycle has finished, the entries it selected have status
\* sent or failed, none is left pending: at the step that ends a cycle, the
\* entry whose pass ends with it is sent or failed.
C23_CycleLeavesNoEntryPending ==
    [][\A w \in Workers :
          /\ retry[w].pc \in {"update", "email", "whatsapp"}
          /\ Len(retry[w].queue) = 1
          /\ retry'[w].queue = <<>>
          => notifications'[Head(retry[w].queue).id].status \in {"sent", "failed"}]_vars

\* --------------------------------------------------- scheduler loop (C24)
\* C24: a failure inside a retry cycle does not end the scheduler loop: the
\* loop waits the recovery interval of 1 minute, not the 5 minutes between
\* cycles, and then runs another cycle.
C24_FailedCycleWaitsRecoveryInterval ==
    [][RetryFault("scheduler") =>
          /\ scheduler'.wait = 60
          /\ retry'["scheduler"].pc = "select"]_vars

\* ----------------------------------------------- channel independence (C25)
\* The delivery flag of the channel other than `channel`.
OtherDelivered(n, channel) == IF channel = "email" THEN n.sms_sent ELSE n.email_sent

\* C25: email is attempted before the message channel, and the channels are
\* independent: a provider send that fails on one channel leaves the other
\* channel's delivery flag as it was, leaves the other channel, when it is
\* still undelivered, the retries the entry had left, and, in the handler, is
\* followed by the attempt on the message channel; no message-channel send is
\* followed by the email send of the same entry.
C25_ChannelsIndependent ==
    [][\A n \in DOMAIN notifications :
          (io' # NoCall /\ io'.nid = n) =>
              /\ ~io'.ok =>
                    /\ OtherDelivered(notifications'[n], io'.channel)
                          = OtherDelivered(notifications[n], io'.channel)
                    /\ (/\ ~OtherDelivered(notifications[n], io'.channel)
                        /\ notifications[n].retry_count < notifications[n].max_retries)
                          => notifications'[n].retry_count < notifications'[n].max_retries
                    /\ (io'.by = "handler" /\ io'.channel = "email"
                           /\ handler.op \in {"create_booking", "stripe_webhook"})
                          => /\ handler'.pc = "sending"
                             /\ Head(handler'.todo) = [nid |-> n, channel |-> "whatsapp"]
              /\ (io'.by = "handler" /\ io'.channel = "whatsapp")
                    => \A k \in DOMAIN handler'.todo :
                          handler'.todo[k] # [nid |-> n, channel |-> "email"]]_vars

\* ------------------------------------------------------- the ledger (C26)
\* The rows a step adds to the ledger.
Inserted == SubSeq(notifications', Len(notifications) + 1, Len(notifications'))

\* The ledger keeps its rows: none is deleted or replaced by another entry.
LedgerKept ==
    /\ Len(notifications') >= Len(notifications)
    /\ \A n \in DOMAIN notifications :
          /\ notifications'[n].type = notifications[n].type
          /\ notifications'[n].recipient_type = notifications[n].recipient_type
          /\ notifications'[n].booking = notifications[n].booking

\* C26: each triggering event gets at most one ledger entry per recipient: a
\* step inserts at most one row per recipient, and the callback of a payment
\* that an earlier callback already completed inserts none; the retry threads
\* insert nothing; nothing deletes an entry.
C26_OneEntryPerEvent ==
    [][/\ LedgerKept
       /\ \A i, j \in DOMAIN Inserted :
             i # j => Inserted[i].recipient_type # Inserted[j].recipient_type
       /\ (retry' # retry \/ io'.by = "retry") => Inserted = <<>>
       /\ \A r \in WebhookRequests :
             (/\ construct_event(r) = "event"
              /\ r.type = "payment_intent.succeeded"
              /\ r.pi <= Len(payments)
              /\ payments[r.pi].payment_status = "completed"
              /\ StripeWebhook(r)) => Inserted = <<>>]_vars

\* ------------------------------------------------- immediate dispatch (C27)
\* The handler has the send of `channel` for ledger row nid to make.
Queued(todo, nid, channel) ==
    \E k \in DOMAIN todo : todo[k] = [nid |-> nid, channel |-> channel]

\* C27: on the immediate dispatch of an event of any type, email is attempted
\* for the entry, and the message channel is attempted whenever the entry's
\* metadata holds a phone: the handler that inserts the entry goes on to make
\* those sends.
C27_DispatchAttemptsBothChannels ==
    [][\A i \in DOMAIN Inserted :
          /\ Queued(handler'.todo, Len(notifications) + i, "email")
          /\ Inserted[i].phone =>
                Queued(handler'.todo, Len(notifications) + i, "whatsapp")]_vars

\* --------------------------------------------------- overlapping cycles (C28)
\* C28: when the scheduler's cycle and an admin-started cycle overlap on the
\* same failed entry, each failed channel is sent at most once in total: a
\* provider call that a cycle makes for a channel of an entry is not directly
\* followed by another cycle's provider call for the same channel of the same
\* entry.  (One cycle sends a channel of an entry once, and starts its next
\* cycle with a query, which calls no provider.)
C28_ChannelSentOnceAcrossCycles ==
    [][~(/\ io.by = "retry"
         /\ io'.by = "retry"
         /\ io'.nid = io.nid
         /\ io'.channel = io.channel
         /\ \E w \in Workers : RetryEmail(w) \/ RetryWhatsapp(w))]_vars

\* ------------------------------------------------------- retry_count (C29)
\* C29: the retry_count of a ledger entry never decreases, whatever the
\* interleaving of the handlers' sends and the retry cycles.
C29_RetryCountNeverDecreases ==
    [][\A n \in DOMAIN notifications :
          notifications'[n].retry_count >= notifications[n].retry_count]_vars

\* ------------------------------------------- failed_notifications (C30)
\* How often notification b is in the list.
Occurrences(list, b) == Cardinality({i \in DOMAIN list : list[i] = b})

\* C30: in app.py a new_booking notification is in failed_notifications, once,
\* exactly when its send at booking creation failed and no later retry of it
\* has succeeded; the retry loop starts a cycle with every entry of the list,
\* and an entry leaves the list only in a retry step whose send succeeded.
C30_FailedNotificationsExact ==
    [][/\ \A b \in DOMAIN app'.bookings_db :
             Occurrences(app'.failed_notifications, b)
                = IF app'.delivered[b] = "failed" THEN 1 ELSE 0
       /\ app_retry_cycle => app'.retrying = app.failed_notifications
       /\ \A b \in DOMAIN app.bookings_db :
             (/\ Occurrences(app.failed_notifications, b) > 0
              /\ Occurrences(app'.failed_notifications, b) = 0)
             => /\ app_retry_send(TRUE)
                /\ Head(app.retrying) = b]_vars

\* A retry has delivered the notification of booking 1 and removed it, while
\* the notification of booking 2, appended meanwhile, is still in the list.
C30_Witness ==
    /\ Len(app.delivered) = 2
    /\ app.delivered[1] = "retried"
    /\ app.delivered[2] = "failed"
    /\ app.failed_notifications = <<2>>

====
